---- MODULE Spec2Model ----
(***************************************************************************)
(* Graph representations of graph.py: edge-list graphs (GraphEL),          *)
(* adjacency-list graphs (GraphAL), the conversions between them, their    *)
(* equality operations, and the random connected graph generator           *)
(* (cycle_shuffle, randgraph) with the round-trip driver.                  *)
(*                                                                         *)
(* Python lists of edges are sequences of pairs <<v1, v2>>; a list indexed *)
(* by vertex (line, neighbors) is a function on 0..n-1.  Python sets are   *)
(* sets; turning a set into a list picks an iteration order.               *)
(***************************************************************************)
EXTENDS Integers, Sequences, FiniteSets, TLC

VARIABLES
    pc,          \* position of the driver
    nvertices,   \* argument nvertices of randgraph
    nedges,      \* argument nedges of randgraph, as passed by the caller
    line,        \* randgraph: the list line
    i,           \* cycle_shuffle: the loop index i
    edges,       \* randgraph: the set edges
    rest,        \* randgraph: the part of the shuffled all_edges not yet visited
    nedges_loc,  \* randgraph: the local nedges, counted down
    input,       \* arguments of a constructor call: nvertices, edges, directed
    g_el,        \* a GraphEL: g_el of the driver, self of the operations
    u_el,        \* the GraphEL returned by g_el.undirected()
    u2_el,       \* the GraphEL returned by g_el.undirected().undirected()
    g_al,        \* a GraphAL: g_al of roundtrip
    back,        \* the GraphEL returned by g_al.toGraphEL()
    other,       \* the right operand g of ==
    res,         \* the value of the last ==
    err          \* the exception that ended the run, if any

vars == <<pc, nvertices, nedges, line, i, edges, rest, nedges_loc, input,
          g_el, u_el, u2_el, g_al, back, other, res, err>>

genVars == <<line, i, edges, rest, nedges_loc>>
argVars == <<nvertices, nedges>>
inVars == <<input>>

(***************************************************************************)
(* Bounds of the model.                                                    *)
(***************************************************************************)
\* randgraph is called with nvertices in 0..MaxV
MaxV == 3
\* nedges goes down to -MaxNeg and up to MaxOver above the precondition's limit
MaxNeg == 1
MaxOver == 1
\* a set of at most MaxPerm elements is listed in every order; a larger one in
\* ascending or in descending order
MaxPerm == 3
\* constructor calls: nvertices in 0..MaxN, an edge list of at most MaxLen edges
MaxN == 3
MaxLen == 2
\* operands of ==: nvertices in 0..MaxEqV, edge lists of at most MaxEqLen edges
\* on the left and at most MaxOtherLen edges on the right
MaxEqV == 2
MaxEqLen == 2
MaxOtherLen == 1

(***************************************************************************)
(* Values.                                                                 *)
(***************************************************************************)
NoGraph == [kind |-> "None"]
NoInput == [kind |-> "None"]

PyBool(b) == IF b THEN "True" ELSE "False"

Range(s) == {s[k] : k \in DOMAIN s}

Reverse(s) == [k \in 1..Len(s) |-> s[Len(s) + 1 - k]]

\* all pairs over the vertices 0..n-1
Pairs(n) == (0..(n - 1)) \X (0..(n - 1))

\* the lists of at most len elements of S
RECURSIVE ListsUpTo(_, _)
ListsUpTo(S, len) ==
    IF len <= 0 THEN {<<>>}
    ELSE LET shorter == ListsUpTo(S, len - 1)
         IN  shorter \cup {Append(l, x) : l \in shorter, x \in S}

\* the order of Python tuples
EdgeLeq(e, f) == e[1] < f[1] \/ (e[1] = f[1] /\ e[2] <= f[2])

RECURSIVE Asc(_)
Asc(S) ==
    IF S = {} THEN <<>>
    ELSE LET m == CHOOSE x \in S : \A y \in S : EdgeLeq(x, y)
         IN  <<m>> \o Asc(S \ {m})

RECURSIVE Perms(_)
Perms(S) ==
    IF S = {} THEN {<<>>}
    ELSE UNION {{<<x>> \o p : p \in Perms(S \ {x})} : x \in S}

\* list(s) for a set s of edges: the iteration order of a set is not defined
ListOrders(S) ==
    IF Cardinality(S) <= MaxPerm THEN Perms(S)
    ELSE {Asc(S), Reverse(Asc(S))}

(***************************************************************************)
(* class GraphEL                                                           *)
(***************************************************************************)
\* AddBoth without self.edges.add((v2, v1))
RECURSIVE AddBoth_forward(_, _)
AddBoth_forward(es, acc) ==
    IF es = <<>> THEN acc
    ELSE AddBoth_forward(Tail(es), acc \cup {<<Head(es)[1], Head(es)[2]>>})

\* GraphEL.__init__, undirected branch: the loop that adds (v1, v2) and (v2, v1)
RECURSIVE AddBoth(_, _)
AddBoth(es, acc) ==
    IF es = <<>> THEN acc
    ELSE LET v1 == Head(es)[1]
             v2 == Head(es)[2]
         IN  AddBoth(Tail(es), (acc \cup {<<v1, v2>>}) \cup {<<v2, v1>>})

\* GraphEL(nvertices, edges, directed): the objects the constructor can build
GraphEL(n, es, d) ==
    IF d
    THEN {[kind |-> "GraphEL", nvertices |-> n, edges |-> es, directed |-> TRUE]}
    ELSE {[kind |-> "GraphEL", nvertices |-> n, edges |-> l, directed |-> FALSE] :
             l \in ListOrders(AddBoth(es, {}))}

AssertionError == [kind |-> "AssertionError"]

\* undirected without its assertion
undirected_unchecked(self) == GraphEL(self.nvertices, self.edges, FALSE)

\* self.undirected(): the graphs it can return, or the failed assertion
undirected(self) ==
    IF ~self.directed THEN {AssertionError}
    ELSE GraphEL(self.nvertices, self.edges, FALSE)

(***************************************************************************)
(* class GraphAL                                                           *)
(***************************************************************************)
\* AppendAll with the endpoints exchanged: neighbors[v2].append(v1)
RECURSIVE AppendAll_swapped(_, _)
AppendAll_swapped(es, nb) ==
    IF es = <<>> THEN nb
    ELSE LET v1 == Head(es)[1]
             v2 == Head(es)[2]
         IN  AppendAll_swapped(Tail(es), [nb EXCEPT ![v2] = Append(@, v1)])

\* GraphAL.__init__, directed branch: neighbors[v1].append(v2) for each edge
RECURSIVE AppendAll(_, _)
AppendAll(es, nb) ==
    IF es = <<>> THEN nb
    ELSE LET v1 == Head(es)[1]
             v2 == Head(es)[2]
         IN  AppendAll(Tail(es), [nb EXCEPT ![v1] = Append(@, v2)])

\* AddAll with neighbors[v2].add(v2) for neighbors[v2].add(v1)
RECURSIVE AddAll_self(_, _)
AddAll_self(es, nb) ==
    IF es = <<>> THEN nb
    ELSE LET v1 == Head(es)[1]
             v2 == Head(es)[2]
             nb1 == [nb EXCEPT ![v1] = @ \cup {v2}]
         IN  AddAll_self(Tail(es), [nb1 EXCEPT ![v2] = @ \cup {v2}])

\* GraphAL.__init__, undirected branch: neighbors[v1].add(v2); neighbors[v2].add(v1)
RECURSIVE AddAll(_, _)
AddAll(es, nb) ==
    IF es = <<>> THEN nb
    ELSE LET v1 == Head(es)[1]
             v2 == Head(es)[2]
             nb1 == [nb EXCEPT ![v1] = @ \cup {v2}]
         IN  AddAll(Tail(es), [nb1 EXCEPT ![v2] = @ \cup {v1}])

\* list(s) for the sets of vertices of one GraphAL: each set is listed in the
\* order in which its elements come in rank, an order of all the vertices
ListByRank(S, rank) == SelectSeq(rank, LAMBDA x : x \in S)

\* GraphAL(nvertices, edges, directed): the objects the constructor can build
GraphAL(n, es, d) ==
    IF d
    THEN {[kind |-> "GraphAL", nvertices |-> n, directed |-> TRUE,
           neighbors |-> AppendAll(es, [v \in 0..(n - 1) |-> <<>>])]}
    ELSE LET sets == AddAll(es, [v \in 0..(n - 1) |-> {}])
         IN  {[kind |-> "GraphAL", nvertices |-> n, directed |-> FALSE,
               neighbors |-> [v \in 0..(n - 1) |-> ListByRank(sets[v], rank)]] :
                 rank \in Perms(0..(n - 1))}

\* self.toGraphAL()
toGraphAL(self) == GraphAL(self.nvertices, self.edges, self.directed)

\* EmitEdges with the vertices v1 taken in descending order
RECURSIVE EmitEdges_descending(_, _, _)
EmitEdges_descending(nb, v1, n) ==
    IF v1 >= n THEN <<>>
    ELSE EmitEdges_descending(nb, v1 + 1, n) \o [k \in 1..Len(nb[v1]) |-> <<v1, nb[v1][k]>>]

\* GraphAL.toGraphEL: the list edges after the iterations v1, v1 + 1, ...
RECURSIVE EmitEdges(_, _, _)
EmitEdges(nb, v1, n) ==
    IF v1 >= n THEN <<>>
    ELSE [k \in 1..Len(nb[v1]) |-> <<v1, nb[v1][k]>>] \o EmitEdges(nb, v1 + 1, n)

\* self.toGraphEL()
toGraphEL(self) ==
    GraphEL(self.nvertices, EmitEdges(self.neighbors, 0, self.nvertices), self.directed)

(***************************************************************************)
(* Equality                                                                *)
(***************************************************************************)
\* GraphEL_eq comparing the edge lists themselves: self.edges == g.edges
GraphEL_eq_lists(self, g) ==
    LET gs == IF g.kind = "GraphAL" THEN toGraphEL(g) ELSE {g}
    IN  {IF self.directed # ge.directed THEN "False"
         ELSE IF self.nvertices # ge.nvertices THEN "False"
         ELSE PyBool(self.edges = ge.edges) : ge \in gs}

\* GraphEL.__eq__(self, g): the values it can return
GraphEL_eq(self, g) ==
    LET gs == IF g.kind = "GraphAL" THEN toGraphEL(g) ELSE {g}
    IN  {IF self.directed # ge.directed THEN "False"
         ELSE IF self.nvertices # ge.nvertices THEN "False"
         ELSE PyBool(Range(self.edges) = Range(ge.edges)) : ge \in gs}

\* GraphAL.__eq__(self, g): the comparison is evaluated and its value dropped;
\* a method without a return statement returns None
GraphAL_eq(self, g) ==
    {"None" : r \in UNION {GraphEL_eq(el, g) : el \in toGraphEL(self)}}

(***************************************************************************)
(* cycle_shuffle and randgraph                                             *)
(***************************************************************************)
\* MaxExtra without the edges of the path taken off
MaxExtra_all(n) == n * (n - 1)

\* the largest nedges the first assertion of randgraph accepts
MaxExtra(n) == n * (n - 1) - (n - 1)

\* Swap that loses l[i]: l[i] = l[j]
Swap_lost(l, a, b) == [l EXCEPT ![a] = l[b]]

\* l[i], l[j] = l[j], l[i]
Swap(l, a, b) == [l EXCEPT ![a] = l[b], ![b] = l[a]]

\* the edges between consecutive elements of line
PathEdges(l, n) == {<<l[k], l[k + 1]>> : k \in 0..(n - 2)}

\* all_edges, before it is shuffled
AllEdges(n) == {e \in Pairs(n) : e[1] # e[2]}

\* randgraph is entered: the precondition, then edges and line are set up
Randgraph ==
    /\ pc = "call"
    /\ IF nedges <= MaxExtra(nvertices)
       THEN /\ edges' = {}
            /\ line' = [k \in 0..(nvertices - 1) |-> k]
            /\ i' = 0
            /\ pc' = "cycle_shuffle"
            /\ err' = err
       ELSE /\ pc' = "failed_randgraph"
            /\ err' = "AssertionError"
            /\ UNCHANGED <<edges, line, i>>
    /\ UNCHANGED <<argVars, rest, nedges_loc, inVars, g_el, u_el, u2_el, g_al, back,
                   other, res>>

\* one iteration of the loop of cycle_shuffle
CycleShuffleStep ==
    /\ pc = "cycle_shuffle"
    /\ i < nvertices - 1
    /\ \E j \in (i + 1)..(nvertices - 1) : line' = Swap(line, i, j)
    /\ i' = i + 1
    /\ UNCHANGED <<pc, argVars, edges, rest, nedges_loc, inVars, g_el, u_el, u2_el,
                   g_al, back, other, res, err>>

\* cycle_shuffle returns; the path is added to edges, all_edges is built,
\* checked and shuffled, and the loop over it is entered or skipped.
\* random.shuffle can leave all_edges in any order: the loop takes its next
\* element from rest, in any order
AddPath ==
    /\ pc = "cycle_shuffle"
    /\ i >= nvertices - 1
    /\ edges' = edges \cup PathEdges(line, nvertices)
    /\ IF Cardinality(AllEdges(nvertices)) = nvertices * (nvertices - 1)
       THEN /\ rest' = AllEdges(nvertices)
            /\ nedges_loc' = nedges
            /\ pc' = IF nedges > 0 /\ AllEdges(nvertices) # {} THEN "extra" ELSE "return"
            /\ err' = err
       ELSE /\ pc' = "failed_all_edges"
            /\ err' = "AssertionError"
            /\ UNCHANGED <<rest, nedges_loc>>
    /\ UNCHANGED <<argVars, line, i, inVars, g_el, u_el, u2_el, g_al, back, other, res>>

\* ExtraStep without the test e not in edges
ExtraStep_unchecked ==
    /\ pc = "extra"
    /\ \E e \in rest :
          /\ rest' = rest \ {e}
          /\ edges' = edges \cup {e}
          /\ nedges_loc' = nedges_loc - 1
          /\ pc' = IF nedges_loc - 1 <= 0 \/ rest \ {e} = {} THEN "return" ELSE "extra"
    /\ UNCHANGED <<argVars, line, i, inVars, g_el, u_el, u2_el, g_al, back, other,
                   res, err>>

\* one iteration of the loop over the shuffled all_edges
ExtraStep ==
    /\ pc = "extra"
    /\ \E e \in rest :
          /\ rest' = rest \ {e}
          /\ IF e \notin edges
             THEN /\ edges' = edges \cup {e}
                  /\ nedges_loc' = nedges_loc - 1
                  /\ pc' = IF nedges_loc - 1 <= 0 \/ rest \ {e} = {}
                           THEN "return" ELSE "extra"
             ELSE /\ UNCHANGED <<edges, nedges_loc>>
                  /\ pc' = IF rest \ {e} = {} THEN "return" ELSE "extra"
    /\ UNCHANGED <<argVars, line, i, inVars, g_el, u_el, u2_el, g_al, back, other,
                   res, err>>

\* return GraphEL(nvertices, list(edges)), bound to g_el by the caller
Return ==
    /\ pc = "return"
    /\ \E l \in ListOrders(edges) : \E g \in GraphEL(nvertices, l, TRUE) : g_el' = g
    /\ pc' = "roundtrip_directed"
    /\ UNCHANGED <<argVars, genVars, inVars, u_el, u2_el, g_al, back, other, res, err>>

(***************************************************************************)
(* The driver: roundtrip(g_el), then roundtrip(g_el.undirected())          *)
(***************************************************************************)
\* the argument of the running call of roundtrip
RoundtripArg == IF pc \in {"roundtrip_directed", "assert_directed"} THEN g_el ELSE u_el

\* g_al = g_el.toGraphAL(); the frame of randgraph is gone
RoundtripToGraphAL ==
    /\ pc \in {"roundtrip_directed", "roundtrip_undirected"}
    /\ \E a \in toGraphAL(RoundtripArg) : g_al' = a
    /\ pc' = IF pc = "roundtrip_directed" THEN "assert_directed" ELSE "assert_undirected"
    /\ line' = <<>>
    /\ i' = 0
    /\ edges' = {}
    /\ rest' = {}
    /\ nedges_loc' = 0
    /\ UNCHANGED <<argVars, inVars, g_el, u_el, u2_el, back, other, res, err>>

\* assert g_el == g_al.toGraphEL()
RoundtripAssert ==
    /\ pc \in {"assert_directed", "assert_undirected"}
    /\ \E b \in toGraphEL(g_al) : \E r \in GraphEL_eq(RoundtripArg, b) :
          /\ back' = b
          /\ res' = r
          /\ IF r = "True"
             THEN /\ pc' = IF pc = "assert_directed" THEN "call_undirected" ELSE "done"
                  /\ err' = err
             ELSE /\ pc' = "failed_roundtrip"
                  /\ err' = "AssertionError"
    /\ UNCHANGED <<argVars, genVars, inVars, g_el, u_el, u2_el, g_al, other>>

\* g_el.undirected(), the argument of the second call of roundtrip; the frame
\* of the first call is gone
CallUndirected ==
    /\ pc = "call_undirected"
    /\ \E u \in undirected(g_el) :
          IF u = AssertionError
          THEN /\ pc' = "failed_undirected"
               /\ err' = "AssertionError"
               /\ u_el' = u_el
          ELSE /\ pc' = "roundtrip_undirected"
               /\ u_el' = u
               /\ err' = err
    /\ g_al' = NoGraph
    /\ back' = NoGraph
    /\ res' = "None"
    /\ UNCHANGED <<argVars, genVars, inVars, g_el, u2_el, other>>

Init ==
    /\ pc = "call"
    /\ nvertices \in 0..MaxV
    /\ nedges \in (0 - MaxNeg)..(MaxExtra(nvertices) + MaxOver)
    /\ line = <<>>
    /\ i = 0
    /\ edges = {}
    /\ rest = {}
    /\ nedges_loc = 0
    /\ input = NoInput
    /\ g_el = NoGraph
    /\ u_el = NoGraph
    /\ u2_el = NoGraph
    /\ g_al = NoGraph
    /\ back = NoGraph
    /\ other = NoGraph
    /\ res = "None"
    /\ err = "None"

Next ==
    \/ Randgraph
    \/ CycleShuffleStep
    \/ AddPath
    \/ ExtraStep
    \/ Return
    \/ RoundtripToGraphAL
    \/ RoundtripAssert
    \/ CallUndirected

Spec == Init /\ [][Next]_vars

(***************************************************************************)
(* Constructor and conversion calls on arbitrary edge lists                *)
(***************************************************************************)
\* the arguments (nvertices, edges, directed) with endpoints in [0, nvertices)
Inputs(maxn, maxlen) ==
    UNION {{[kind |-> "Input", nvertices |-> n, edges |-> es, directed |-> d] :
               es \in ListsUpTo(Pairs(n), maxlen), d \in BOOLEAN} : n \in 0..maxn}

\* no call of randgraph is running
NoRandgraph ==
    /\ nvertices = 0
    /\ nedges = 0
    /\ line = <<>>
    /\ i = 0
    /\ edges = {}
    /\ rest = {}
    /\ nedges_loc = 0

NoObjects ==
    /\ g_el = NoGraph
    /\ u_el = NoGraph
    /\ u2_el = NoGraph
    /\ g_al = NoGraph
    /\ back = NoGraph
    /\ other = NoGraph
    /\ res = "None"
    /\ err = "None"

\* g_el = GraphEL(nvertices, edges, directed)
NewGraphEL ==
    /\ pc = "construct"
    /\ \E g \in GraphEL(input.nvertices, input.edges, input.directed) : g_el' = g
    /\ pc' = "el"
    /\ UNCHANGED <<argVars, genVars, inVars, u_el, u2_el, g_al, back, other, res, err>>

\* g_al = GraphAL(nvertices, edges, directed)
NewGraphAL ==
    /\ pc = "construct"
    /\ \E a \in GraphAL(input.nvertices, input.edges, input.directed) : g_al' = a
    /\ pc' = "al"
    /\ UNCHANGED <<argVars, genVars, inVars, g_el, u_el, u2_el, back, other, res, err>>

\* g_al = g_el.toGraphAL()
ToGraphAL ==
    /\ pc = "el"
    /\ \E a \in toGraphAL(g_el) : g_al' = a
    /\ pc' = "al"
    /\ UNCHANGED <<argVars, genVars, inVars, g_el, u_el, u2_el, back, other, res, err>>

\* back = g_al.toGraphEL()
ToGraphEL ==
    /\ pc = "al"
    /\ \E b \in toGraphEL(g_al) : back' = b
    /\ pc' = "back"
    /\ UNCHANGED <<argVars, genVars, inVars, g_el, u_el, u2_el, g_al, other, res, err>>

\* u_el = g_el.undirected(), and then u2_el = u_el.undirected()
Undirected ==
    /\ pc \in {"el", "undirected"}
    /\ \E u \in undirected(IF pc = "el" THEN g_el ELSE u_el) :
          IF u = AssertionError
          THEN /\ pc' = IF pc = "el" THEN "failed_undirected" ELSE "failed_undirected_twice"
               /\ err' = "AssertionError"
               /\ UNCHANGED <<u_el, u2_el>>
          ELSE /\ pc' = IF pc = "el" THEN "undirected" ELSE "undirected_twice"
               /\ u_el' = IF pc = "el" THEN u ELSE u_el
               /\ u2_el' = IF pc = "el" THEN u2_el ELSE u
               /\ err' = err
    /\ UNCHANGED <<argVars, genVars, inVars, g_el, g_al, back, other, res>>

InitConv ==
    /\ pc = "construct"
    /\ input \in Inputs(MaxN, MaxLen)
    /\ NoRandgraph
    /\ NoObjects

NextConv ==
    \/ NewGraphEL
    \/ NewGraphAL
    \/ ToGraphAL
    \/ ToGraphEL
    \/ Undirected

SpecConv == InitConv /\ [][NextConv]_vars

(***************************************************************************)
(* Calls of == on arbitrary operands                                       *)
(***************************************************************************)
\* the objects of either class that the constructors build from arguments
\* with nvertices <= maxn and at most maxlen edges
Objects(maxn, maxlen) ==
    UNION {GraphEL(in.nvertices, in.edges, in.directed)
               \cup GraphAL(in.nvertices, in.edges, in.directed) :
             in \in Inputs(maxn, maxlen)}

\* res = (g_el == other)
EqEL ==
    /\ pc = "compare"
    /\ g_el.kind = "GraphEL"
    /\ \E r \in GraphEL_eq(g_el, other) : res' = r
    /\ pc' = "compared"
    /\ UNCHANGED <<argVars, genVars, inVars, g_el, u_el, u2_el, g_al, back, other, err>>

\* res = (g_al == other)
EqAL ==
    /\ pc = "compare"
    /\ g_al.kind = "GraphAL"
    /\ \E r \in GraphAL_eq(g_al, other) : res' = r
    /\ pc' = "compared"
    /\ UNCHANGED <<argVars, genVars, inVars, g_el, u_el, u2_el, g_al, back, other, err>>

\* the operands of == have been built
InitEq ==
    /\ pc = "compare"
    /\ \E a \in Objects(MaxEqV, MaxEqLen) :
          /\ g_el = (IF a.kind = "GraphEL" THEN a ELSE NoGraph)
          /\ g_al = (IF a.kind = "GraphAL" THEN a ELSE NoGraph)
    /\ other \in Objects(MaxEqV, MaxOtherLen)
    /\ input = NoInput
    /\ NoRandgraph
    /\ u_el = NoGraph
    /\ u2_el = NoGraph
    /\ back = NoGraph
    /\ res = "None"
    /\ err = "None"

NextEq ==
    \/ EqEL
    \/ EqAL

SpecEq == InitEq /\ [][NextEq]_vars

(***************************************************************************)
(* Properties                                                              *)
(***************************************************************************)
\* the pairs listed in the edge list of a GraphEL
EdgeSet(g) == {e \in Pairs(g.nvertices) : \E k \in DOMAIN g.edges : g.edges[k] = e}

\* the pairs (v, w) with w listed among the neighbors of v in a GraphAL
NeighborPairs(a) ==
    {e \in Pairs(a.nvertices) :
        \E k \in DOMAIN a.neighbors[e[1]] : a.neighbors[e[1]][k] = e[2]}

\* the pairs of a graph of either class
PairsOf(g) == IF g.kind = "GraphAL" THEN NeighborPairs(g) ELSE EdgeSet(g)

\* no element is listed twice
NoDuplicates(l) == \A a, b \in DOMAIN l : a # b => l[a] # l[b]

\* with every listed edge, the reversed edge is listed
Symmetric(l) == \A a \in DOMAIN l : \E b \in DOMAIN l : l[b] = <<l[a][2], l[a][1]>>

\* every element of l1 is listed in l2
ListedIn(l1, l2) == \A a \in DOMAIN l1 : \E b \in DOMAIN l2 : l2[b] = l1[a]

\* l lists each of 0..n-1 exactly once
IsPermutation(l, n) ==
    /\ DOMAIN l = 0..(n - 1)
    /\ \A v \in 0..(n - 1) : Cardinality({k \in 0..(n - 1) : l[k] = v}) = 1

\* the targets of the edges of l that leave v, in the order of l
Targets(l, v) ==
    LET out == SelectSeq(l, LAMBDA e : e[1] = v)
    IN  [k \in 1..Len(out) |-> out[k][2]]

\* two graphs agree in vertex count, directed flag and set of edges
SameGraph(g, h) ==
    /\ g.nvertices = h.nvertices
    /\ g.directed = h.directed
    /\ PairsOf(g) = PairsOf(h)

\* C1: for nvertices >= 1 and every nedges the precondition allows, the graph
\* g_el returned by randgraph equals g_el.toGraphAL().toGraphEL(): the
\* assertion of the first roundtrip holds, and the graph read back has the same
\* vertex count, the directed flag true and the same set of edges.
C1_DirectedRoundTrip ==
    (/\ nvertices >= 1
     /\ pc \in {"call_undirected", "failed_roundtrip"}
     /\ u_el = NoGraph)
        => /\ res = "True"
           /\ pc = "call_undirected"
           /\ back.nvertices = g_el.nvertices
           /\ g_el.directed = TRUE
           /\ back.directed = TRUE
           /\ EdgeSet(back) = EdgeSet(g_el)

C1_Witness ==
    /\ pc = "call_undirected"
    /\ nvertices = 3
    /\ nedges = 2
    /\ res = "True"
    /\ Len(g_el.edges) = 4
    /\ back.edges # g_el.edges

\* C2: for u = g_el.undirected() of a graph returned by randgraph,
\* u.toGraphAL().toGraphEL() equals u: the assertion of the second roundtrip
\* holds, both graphs have the same vertex count and the directed flag false,
\* and both list exactly the edges of g_el and their reverses.
C2_UndirectedRoundTrip ==
    (/\ pc \in {"done", "failed_roundtrip"}
     /\ u_el # NoGraph)
        => /\ res = "True"
           /\ pc = "done"
           /\ back.nvertices = u_el.nvertices
           /\ u_el.nvertices = nvertices
           /\ u_el.directed = FALSE
           /\ back.directed = FALSE
           /\ EdgeSet(back) = EdgeSet(u_el)
           /\ EdgeSet(u_el) = EdgeSet(g_el) \cup {<<e[2], e[1]>> : e \in EdgeSet(g_el)}

C2_Witness ==
    /\ pc = "done"
    /\ nvertices = 3
    /\ nedges = 1
    /\ res = "True"
    /\ Len(u_el.edges) = 6
    /\ back.edges # u_el.edges

\* the graph returned by randgraph has (nvertices - 1) + nedges edges, none
\* from a vertex to itself and none listed twice
EdgeCountHolds ==
    /\ Len(g_el.edges) = (nvertices - 1) + nedges
    /\ \A k \in DOMAIN g_el.edges : g_el.edges[k][1] # g_el.edges[k][2]
    /\ NoDuplicates(g_el.edges)

\* C3 as stated: whenever the arguments pass the precondition assertion, the
\* returned graph has exactly (nvertices - 1) + nedges edges, no self-loop and
\* no edge listed twice.
C3_AsStated == pc = "roundtrip_directed" => EdgeCountHolds

\* C3: whenever randgraph is called with nvertices >= 1 and 0 <= nedges that
\* pass the precondition assertion, the returned graph has exactly
\* (nvertices - 1) + nedges edges, no self-loop and no edge listed twice.
C3_EdgeCount ==
    (pc = "roundtrip_directed" /\ nvertices >= 1 /\ nedges >= 0) => EdgeCountHolds

C3_Witness ==
    /\ pc = "roundtrip_directed"
    /\ nvertices = 3
    /\ nedges = 2
    /\ Len(g_el.edges) = 4
    /\ g_el.edges[1] = <<2, 1>>

\* C4: the list cycle_shuffle leaves is a permutation of 0..nvertices-1, and
\* the graph returned by randgraph has the edge (line[k], line[k+1]) for every
\* consecutive pair of it.
C4_HamiltonianPath ==
    /\ (pc \in {"cycle_shuffle", "extra", "return", "roundtrip_directed"}
           => IsPermutation(line, nvertices))
    /\ (pc = "roundtrip_directed"
           => \A k \in 0..(nvertices - 2) : <<line[k], line[k + 1]>> \in EdgeSet(g_el))

C4_Witness ==
    /\ pc = "roundtrip_directed"
    /\ nvertices = 3
    /\ line[0] = 2 /\ line[1] = 0 /\ line[2] = 1
    /\ <<2, 0>> \in EdgeSet(g_el)
    /\ <<0, 1>> \in EdgeSet(g_el)

\* C7: randgraph fails with a precondition error, before any edge is built,
\* exactly when nedges > nvertices*(nvertices-1) - (nvertices-1); otherwise no
\* assertion of randgraph fails and it runs on until it returns a graph.
C7_Precondition ==
    LET over == nedges > nvertices * (nvertices - 1) - (nvertices - 1)
    IN  /\ (pc # "call" => (pc = "failed_randgraph" <=> over))
        /\ (pc = "failed_randgraph"
               => /\ err = "AssertionError"
                  /\ edges = {}
                  /\ line = <<>>
                  /\ g_el = NoGraph)
        /\ pc # "failed_all_edges"
        /\ (pc = "cycle_shuffle" => ENABLED (CycleShuffleStep \/ AddPath))
        /\ (pc = "extra" => ENABLED ExtraStep)
        /\ (pc = "return"
               => \E l \in ListOrders(edges) : GraphEL(nvertices, l, TRUE) # {})
        /\ (pc \notin {"call", "cycle_shuffle", "extra", "return", "failed_randgraph"}
               => g_el.kind = "GraphEL")

C7_Witness ==
    /\ pc = "failed_randgraph"
    /\ nvertices = 3
    /\ nedges = 5
    /\ err = "AssertionError"

\* the edge list of an undirected GraphEL built from the edge list from is
\* symmetric, lists every edge of from and lists no edge twice
ClosureOf(g, from) ==
    /\ Symmetric(g.edges)
    /\ ListedIn(from, g.edges)
    /\ NoDuplicates(g.edges)

\* C5: every GraphEL whose directed flag is false, built by the constructor
\* with directed=False, by undirected() or by toGraphEL() on an undirected
\* GraphAL, lists (v2, v1) whenever it lists (v1, v2), lists every input edge
\* and lists no edge twice.
C5_SymmetricClosure ==
    /\ (g_el.kind = "GraphEL" /\ ~g_el.directed) => ClosureOf(g_el, input.edges)
    /\ (u_el.kind = "GraphEL" /\ ~u_el.directed) => ClosureOf(u_el, g_el.edges)
    /\ (back.kind = "GraphEL" /\ ~back.directed)
          => ClosureOf(back, EmitEdges(g_al.neighbors, 0, g_al.nvertices))
    /\ (back.kind = "GraphEL" /\ ~back.directed)
          => \A e \in NeighborPairs(g_al) : e \in EdgeSet(back)

C5_Witness ==
    /\ pc = "back"
    /\ ~back.directed
    /\ input.edges = <<<<0, 1>>, <<2, 1>>>>
    /\ g_el.kind = "GraphEL"
    /\ Len(back.edges) = 4
    /\ back.edges # g_el.edges

\* C6: undirected() on a GraphEL whose directed flag is false fails with a
\* precondition error and returns no graph, so that g.undirected().undirected()
\* always fails at the second call; on a directed graph it succeeds, and the
\* source graph keeps its nvertices, edges and directed flag.
C6_UndirectedPrecondition ==
    /\ pc = "failed_undirected"
          => /\ ~g_el.directed
             /\ u_el = NoGraph
             /\ err = "AssertionError"
    /\ pc \in {"undirected", "undirected_twice", "failed_undirected_twice"}
          => /\ g_el.directed
             /\ u_el.kind = "GraphEL"
             /\ ~u_el.directed
             /\ g_el.nvertices = input.nvertices
             /\ g_el.edges = input.edges
             /\ pc # "undirected_twice"
    /\ pc = "failed_undirected_twice" => err = "AssertionError"
    /\ u2_el = NoGraph
    /\ (pc = "el" /\ g_el.directed)
          => (undirected(g_el) # {} /\ AssertionError \notin undirected(g_el))
    /\ (pc = "el" /\ ~g_el.directed) => undirected(g_el) = {AssertionError}
    /\ pc = "undirected" => undirected(u_el) = {AssertionError}

C6_Witness ==
    /\ pc = "failed_undirected_twice"
    /\ g_el.directed
    /\ g_el.edges = <<<<0, 1>>, <<1, 2>>>>
    /\ Len(u_el.edges) = 4
    /\ u2_el = NoGraph
    /\ err = "AssertionError"

\* C10: for a directed edge list with endpoints in [0, nvertices), GraphAL
\* builds exactly nvertices neighbor lists, neighbors[v] being the targets of
\* the edges leaving v in input order with duplicates kept, and toGraphEL()
\* lists the edges (v1, v2) by ascending v1 and, for one v1, in the order of
\* neighbors[v1], with the directed flag unchanged; nvertices=3 with edges
\* [(0,1),(1,2)] gives neighbors [[1],[2],[]] and reads back as {(0,1),(1,2)}.
C10_DirectedAdjacency ==
    (input.kind = "Input" /\ input.directed) =>
        /\ g_al.kind = "GraphAL"
              => /\ g_al.directed
                 /\ g_al.nvertices = input.nvertices
                 /\ DOMAIN g_al.neighbors = 0..(input.nvertices - 1)
                 /\ \A v \in 0..(input.nvertices - 1) :
                       g_al.neighbors[v] = Targets(input.edges, v)
        /\ back.kind = "GraphEL"
              => /\ back.directed
                 /\ back.nvertices = input.nvertices
                 /\ \A a, b \in DOMAIN back.edges :
                       a < b => back.edges[a][1] <= back.edges[b][1]
                 /\ \A v \in 0..(input.nvertices - 1) :
                       Targets(back.edges, v) = g_al.neighbors[v]
                 /\ Len(back.edges) = Len(input.edges)
        /\ (input.nvertices = 3 /\ input.edges = <<<<0, 1>>, <<1, 2>>>>)
              => /\ g_al.kind = "GraphAL"
                    => g_al.neighbors = (0 :> <<1>> @@ 1 :> <<2>> @@ 2 :> <<>>)
                 /\ back.kind = "GraphEL" => EdgeSet(back) = {<<0, 1>>, <<1, 2>>}

C10_Witness ==
    /\ pc = "back"
    /\ input.directed
    /\ input.nvertices = 3
    /\ input.edges = <<<<0, 1>>, <<1, 2>>>>
    /\ g_al.neighbors[0] = <<1>>
    /\ back.edges = <<<<0, 1>>, <<1, 2>>>>

\* the result the comparison of (nvertices, directed, edge set) has to give
Compared(a, g) == PyBool(SameGraph(a, g))

\* C8: for a GraphAL a and a graph g, a == g returns the boolean result of
\* comparing a.toGraphEL() with g: true when vertex count, directed flag and
\* edge set agree, false otherwise.
C8_AdjacencyEquality ==
    (pc = "compared" /\ g_al.kind = "GraphAL") => res = Compared(g_al, other)

\* C9: for a GraphEL a and a graph g (a GraphAL being converted first), a == g
\* is false if the directed flags or the vertex counts differ, and otherwise
\* true exactly if both list the same pairs, in whatever order and however
\* many times.
C9_EdgeListEquality ==
    (pc = "compared" /\ g_el.kind = "GraphEL") =>
        /\ res \in {"True", "False"}
        /\ g_el.directed # other.directed => res = "False"
        /\ g_el.nvertices # other.nvertices => res = "False"
        /\ (g_el.directed = other.directed /\ g_el.nvertices = other.nvertices)
              => (res = "True" <=> PairsOf(g_el) = PairsOf(other))

C9_Witness ==
    /\ pc = "compared"
    /\ g_el.kind = "GraphEL"
    /\ other.kind = "GraphEL"
    /\ g_el.edges = <<<<0, 1>>, <<0, 1>>>>
    /\ other.edges = <<<<0, 1>>>>
    /\ g_el.nvertices = other.nvertices
    /\ res = "True"

====
